---- MODULE Spec2Model ----
(***************************************************************************)
(* Products API (server.js): the Express request pipeline over the         *)
(* in-memory product store.                                                *)
(*                                                                         *)
(* JavaScript values are tagged records:                                   *)
(*   undefined  [t |-> "undefined"]                                        *)
(*   number     [t |-> "number", n |-> k]   the number k / Scale           *)
(*   NaN        [t |-> "nan"]               (typeof NaN is "number")       *)
(*   string     [t |-> "string", s |-> <<c1, ..., cn>>]  one-char strings  *)
(*   boolean    [t |-> "boolean", b |-> TRUE]                              *)
(*   array      [t |-> "array", a |-> <<v1, ..., vn>>]                     *)
(* A request is taken after express.json() has parsed its body (line 7):   *)
(* req.body is the parsed object, an absent member reads as undefined.     *)
(* One request is handled to completion before the next one starts: no     *)
(* handler awaits anything, so a request is one step.                      *)
(***************************************************************************)
EXTENDS Integers, Sequences, FiniteSets, TLC

VARIABLES products, generated, deleted, req, stages, err, out

vars == <<products, generated, deleted, req, stages, err, out>>

(* ------------------------------ bounds --------------------------------- *)

\* uuidv4() is called at most MaxIds times in a run (the two seeds included).
MaxIds == 3

\* Numbers are fixed-point: the record field n holds the value times Scale
\* (the seed prices 999.99 and 699.99 have two decimals).
Scale == 100

(* -------------------------- JavaScript values -------------------------- *)

Undefined == [t |-> "undefined"]

NaN == [t |-> "nan"]

Num(k) == [t |-> "number", n |-> k]

Whole(i) == Num(i * Scale)

Str(s) == [t |-> "string", s |-> s]

Bool(b) == [t |-> "boolean", b |-> b]

Arr(a) == [t |-> "array", a |-> a]

\* ToBoolean: what `!v`, `v && ...` and `v || ...` test.
Truthy(v) ==
  CASE v.t = "undefined" -> FALSE
    [] v.t = "nan"       -> FALSE
    [] v.t = "number"    -> v.n # 0
    [] v.t = "string"    -> v.s # <<>>
    [] v.t = "boolean"   -> v.b
    [] v.t = "array"     -> TRUE

\* a || b
Or(a, b) == IF Truthy(a) THEN a ELSE b

\* typeof v
TypeOf(v) ==
  CASE v.t = "nan"   -> "number"
    [] v.t = "array" -> "object"
    [] OTHER         -> v.t

DecDigits == <<"0", "1", "2", "3", "4", "5", "6", "7", "8", "9">>

HexDigits == DecDigits \o <<"a", "b", "c", "d", "e", "f">>

UpperCase == <<"A", "B", "C", "D", "E", "F", "G", "H", "I", "J", "K", "L", "M",
               "N", "O", "P", "Q", "R", "S", "T", "U", "V", "W", "X", "Y", "Z">>

LowerCase == <<"a", "b", "c", "d", "e", "f", "g", "h", "i", "j", "k", "l", "m",
               "n", "o", "p", "q", "r", "s", "t", "u", "v", "w", "x", "y", "z">>

Range(f) == {f[i] : i \in DOMAIN f}

IndexIn(c, tbl) == CHOOSE i \in DOMAIN tbl : tbl[i] = c

LowerChar(c) == IF c \in Range(UpperCase) THEN LowerCase[IndexIn(c, UpperCase)] ELSE c

\* String.prototype.toLowerCase on the characters of a string.
ToLowerCase(s) == [i \in DOMAIN s |-> LowerChar(s[i])]

\* String.prototype.includes: needle occurs in hay as a contiguous substring.
Includes(hay, needle) ==
  \E i \in 1..(Len(hay) + 1) :
    /\ i + Len(needle) - 1 <= Len(hay)
    /\ \A j \in 1..Len(needle) : hay[i + j - 1] = needle[j]

Drop(s, k) == SubSeq(s, k + 1, Len(s))

IsSpace(c) == c = " "

RECURSIVE TrimLeft(_)
TrimLeft(s) == IF s # <<>> /\ IsSpace(s[1]) THEN TrimLeft(Tail(s)) ELSE s

RECURSIVE TrimRight(_)
TrimRight(s) ==
  IF s # <<>> /\ IsSpace(s[Len(s)]) THEN TrimRight(SubSeq(s, 1, Len(s) - 1)) ELSE s

Trim(s) == TrimRight(TrimLeft(s))

\* Length of the longest prefix of s made of digits of the table tbl.
RECURSIVE DigitRun(_, _)
DigitRun(s, tbl) ==
  IF s # <<>> /\ LowerChar(s[1]) \in Range(tbl) THEN 1 + DigitRun(Tail(s), tbl) ELSE 0

\* Value of a sequence of digits of the table tbl (radix Len(tbl)).
RECURSIVE DigitsValue(_, _)
DigitsValue(s, tbl) ==
  IF s = <<>> THEN 0
  ELSE DigitsValue(SubSeq(s, 1, Len(s) - 1), tbl) * Len(tbl)
         + (IndexIn(LowerChar(s[Len(s)]), tbl) - 1)

\* The first two digits of a fraction, as hundredths.
FractionValue(s) ==
  (IF Len(s) >= 1 THEN (IndexIn(s[1], DecDigits) - 1) * (Scale \div 10) ELSE 0)
    + (IF Len(s) >= 2 THEN (IndexIn(s[2], DecDigits) - 1) * (Scale \div 100) ELSE 0)

\* The longest prefix of s that is a decimal literal digits[.digits]: its
\* length (0 when there is none) and its value.
DecimalPrefix(s) ==
  LET k      == DigitRun(s, DecDigits)
      hasDot == Len(s) > k /\ s[k + 1] = "."
      f      == IF hasDot THEN DigitRun(Drop(s, k + 1), DecDigits) ELSE 0
  IN IF k + f = 0 THEN [len |-> 0, val |-> 0]
     ELSE [len |-> k + (IF hasDot THEN 1 + f ELSE 0),
           val |-> DigitsValue(SubSeq(s, 1, k), DecDigits) * Scale
                     + FractionValue(SubSeq(s, k + 2, k + 1 + f))]

HasSign(s) == s # <<>> /\ s[1] \in {"+", "-"}

SignOf(s) == IF s # <<>> /\ s[1] = "-" THEN -1 ELSE 1

Unsigned(s) == IF HasSign(s) THEN Tail(s) ELSE s

HasHexPrefix(s) == Len(s) >= 2 /\ s[1] = "0" /\ s[2] \in {"x", "X"}

\* Number(string): the whole trimmed string must be a numeric literal; the
\* empty string is 0, a 0x literal is read in radix 16.
StringToNumber(s) ==
  LET t == Trim(s)
      u == Unsigned(t)
      d == DecimalPrefix(u)
  IN IF t = <<>> THEN Num(0)
     ELSE IF HasHexPrefix(t)
       THEN IF Len(t) > 2 /\ DigitRun(Drop(t, 2), HexDigits) = Len(t) - 2
              THEN Num(DigitsValue(Drop(t, 2), HexDigits) * Scale)
              ELSE NaN
     ELSE IF d.len > 0 /\ d.len = Len(u) THEN Num(SignOf(t) * d.val)
     ELSE NaN

RECURSIVE NatToString(_)
NatToString(k) ==
  IF k < 10 THEN <<DecDigits[k + 1]>>
  ELSE NatToString(k \div 10) \o <<DecDigits[(k % 10) + 1]>>

\* Number.prototype.toString for a finite number.
NumberToString(k) ==
  LET a    == IF k < 0 THEN -k ELSE k
      frac == a % Scale
      fs   == IF frac = 0 THEN <<>>
              ELSE IF frac % 10 = 0 THEN <<".", DecDigits[(frac \div 10) + 1]>>
              ELSE <<".", DecDigits[(frac \div 10) + 1], DecDigits[(frac % 10) + 1]>>
  IN (IF k < 0 THEN <<"-">> ELSE <<>>) \o NatToString(a \div Scale) \o fs

RECURSIVE ToStr(_)
RECURSIVE JoinComma(_)
\* Array.prototype.join(","), which Array.prototype.toString uses.
JoinComma(a) ==
  IF a = <<>> THEN <<>>
  ELSE (IF a[1].t = "undefined" THEN <<>> ELSE ToStr(a[1]))
         \o (IF Len(a) > 1 THEN <<",">> \o JoinComma(Tail(a)) ELSE <<>>)

\* ToString(v)
ToStr(v) ==
  CASE v.t = "undefined" -> <<"u", "n", "d", "e", "f", "i", "n", "e", "d">>
    [] v.t = "nan"       -> <<"N", "a", "N">>
    [] v.t = "number"    -> NumberToString(v.n)
    [] v.t = "string"    -> v.s
    [] v.t = "boolean"   -> IF v.b THEN <<"t", "r", "u", "e">>
                                   ELSE <<"f", "a", "l", "s", "e">>
    [] v.t = "array"     -> JoinComma(v.a)

\* ToNumber(v)
ToNumber(v) ==
  CASE v.t = "undefined" -> NaN
    [] v.t = "nan"       -> NaN
    [] v.t = "number"    -> v
    [] v.t = "string"    -> StringToNumber(v.s)
    [] v.t = "boolean"   -> IF v.b THEN Whole(1) ELSE Whole(0)
    [] v.t = "array"     -> StringToNumber(ToStr(v))

\* isNaN(v)
isNaN(v) == ToNumber(v) = NaN

\* v <= 0 (the other operand is a number, so v is converted with ToNumber;
\* a comparison with NaN is false)
LessOrEqualZero(v) == LET x == ToNumber(v) IN x # NaN /\ x.n <= 0

\* parseFloat(v): the longest decimal-literal prefix of the string of v.
parseFloat(v) ==
  LET t == TrimLeft(ToStr(v))
      d == DecimalPrefix(Unsigned(t))
  IN IF d.len = 0 THEN NaN ELSE Num(SignOf(t) * d.val)

\* parseInt(v) without a radix: a 0x prefix selects radix 16, otherwise the
\* longest prefix of decimal digits is read.
parseInt(v) ==
  LET t   == TrimLeft(ToStr(v))
      u   == Unsigned(t)
      hex == HasHexPrefix(u)
      w   == IF hex THEN Drop(u, 2) ELSE u
      tbl == IF hex THEN HexDigits ELSE DecDigits
      k   == DigitRun(w, tbl)
  IN IF k = 0 THEN NaN
     ELSE Num(SignOf(t) * DigitsValue(SubSeq(w, 1, k), tbl) * Scale)

\* a - b and a * b on finite numbers
Minus(a, b) == Num(a.n - b.n)

Times(a, b) == Num((a.n * b.n) \div Scale)

\* ToIntegerOrInfinity of a finite number: truncation towards zero.
ToInteger(a) == IF a.n >= 0 THEN a.n \div Scale ELSE -((-a.n) \div Scale)

Max(a, b) == IF a >= b THEN a ELSE b

Min(a, b) == IF a <= b THEN a ELSE b

\* Array.prototype.slice(start, end): a negative index counts from the end.
Slice(arr, start, end) ==
  LET len  == Len(arr)
      rs   == ToInteger(start)
      re   == ToInteger(end)
      k    == IF rs < 0 THEN Max(len + rs, 0) ELSE Min(rs, len)
      fin  == IF re < 0 THEN Max(len + re, 0) ELSE Min(re, len)
  IN SubSeq(arr, k + 1, fin)

\* Array.prototype.filter with a predicate that cannot throw.
Filter(arr, P(_)) == SelectSeq(arr, P)

\* Array.prototype.findIndex, 1-based, 0 for "not found" (JavaScript's -1).
FindIndex(arr, P(_)) ==
  IF \E i \in DOMAIN arr : P(arr[i])
    THEN CHOOSE i \in DOMAIN arr : P(arr[i]) /\ \A j \in 1..(i - 1) : ~P(arr[j])
    ELSE 0

\* obj[key] = val on an object modelled as a function from keys to values
Assign(obj, key, val) ==
  [k \in (DOMAIN obj) \cup {key} |-> IF k = key THEN val ELSE obj[k]]

EmptyObject == <<>>

(* ------------------------------ strings -------------------------------- *)

SecretApiKey == <<"s", "e", "c", "r", "e", "t", "-", "a", "p", "i", "-", "k", "e", "y">>

SegApi == <<"a", "p", "i">>

SegProducts == <<"p", "r", "o", "d", "u", "c", "t", "s">>

SegStats == <<"s", "t", "a", "t", "s">>

\* uuidv4(): the k-th identifier the generator hands out.  The library's
\* contract is that no two calls return the same string; the identifier is
\* never a word such as "stats".
uuidv4(k) == <<"u", "u", "i", "d", "-">> \o NatToString(k)

(* ------------------------------ the store ------------------------------ *)

\* let products = [ ... ]: the two seed records
SeedProducts ==
  << [id          |-> uuidv4(1),
      name        |-> Str(<<"L", "a", "p", "t", "o", "p">>),
      description |-> Str(<<"H", "i", "g", "h", " ", "p", "e", "r", "f", "o", "r",
                            "m", "a", "n", "c", "e", " ", "l", "a", "p", "t", "o", "p">>),
      price       |-> Num(99999),
      category    |-> Str(<<"E", "l", "e", "c", "t", "r", "o", "n", "i", "c", "s">>),
      inStock     |-> Bool(TRUE)],
     [id          |-> uuidv4(2),
      name        |-> Str(<<"S", "m", "a", "r", "t", "p", "h", "o", "n", "e">>),
      description |-> Str(<<"L", "a", "t", "e", "s", "t", " ", "s", "m", "a", "r", "t",
                            "p", "h", "o", "n", "e", " ", "m", "o", "d", "e", "l">>),
      price       |-> Num(69999),
      category    |-> Str(<<"E", "l", "e", "c", "t", "r", "o", "n", "i", "c", "s">>),
      inStock     |-> Bool(TRUE)] >>

Ids(store) == {store[i].id : i \in DOMAIN store}

(* ------------------------------ errors --------------------------------- *)

NoError == [name |-> "none", message |-> "", statusCode |-> Undefined, errors |-> Undefined]

\* class NotFoundError
NotFoundError(message) ==
  [name |-> "NotFoundError", message |-> message, statusCode |-> Whole(404),
   errors |-> Undefined]

\* what calling a method that a value does not have raises
TypeError(message) ==
  [name |-> "TypeError", message |-> message, statusCode |-> Undefined,
   errors |-> Undefined]

(* ---------------------------- middleware ------------------------------- *)

\* next()
CallNext == [next |-> TRUE]

\* res.status(status).json(body), no next()
Reply(status, body) == [next |-> FALSE, status |-> status, body |-> body]

\* apiKeyMiddleware that only asks for a key to be present
apiKeyMiddlewarePresenceOnly(r) ==
  IF ~Truthy(r.apiKey)
    THEN Reply(401, [message |-> "Unauthorized: Invalid API key"])
    ELSE CallNext

\* apiKeyMiddleware
apiKeyMiddleware(r) ==
  LET apiKey == r.apiKey
  IN IF ~Truthy(apiKey) \/ apiKey # Str(SecretApiKey)
       THEN Reply(401, [message |-> "Unauthorized: Invalid API key"])
       ELSE CallNext

\* if (test) errors[field] = message
AssignIf(test, errors, field, message) ==
  IF test THEN Assign(errors, field, message) ELSE errors

\* the errors object validateProduct builds, statement by statement
ValidationErrors(body) ==
  AssignIf(TypeOf(body.inStock) # "boolean", 
    AssignIf(~Truthy(body.category),
      AssignIf(Truthy(body.price) /\ (isNaN(body.price) \/ LessOrEqualZero(body.price)),
        AssignIf(~Truthy(body.price),
          AssignIf(~Truthy(body.description),
            AssignIf(~Truthy(body.name),
              EmptyObject,
              "name", "Name is required"),
            "description", "Description is required"),
          "price", "Price is required"),
        "price", "Price must be a positive number"),
      "category", "Category is required"),
    "inStock", "inStock must be a boolean")

\* validateProduct
validateProduct(r) ==
  LET errors == ValidationErrors(r.body)
  IN IF Cardinality(DOMAIN errors) > 0
       THEN Reply(400, [message |-> "Validation failed", errors |-> errors])
       ELSE CallNext

\* the global error handler
ErrorHandler(e) ==
  LET statusCode == Or(e.statusCode, Whole(500))
      message    == IF e.message # "" THEN e.message ELSE "Internal Server Error"
  IN [status |-> ToInteger(statusCode),
      body   |-> IF Truthy(e.errors)
                   THEN [message |-> message, errors |-> e.errors]
                   ELSE [message |-> message]]

(* ----------------------------- handlers -------------------------------- *)
(* A handler yields the store it leaves, the number of identifiers         *)
(* generated so far, the responses it sent and the error it threw.         *)

Sent(store, ids, status, body) ==
  [products |-> store, ids |-> ids, sent |-> <<[status |-> status, body |-> body]>>,
   thrown |-> NoError]

Thrown(store, ids, e) ==
  [products |-> store, ids |-> ids, sent |-> <<>>, thrown |-> e]

\* GET /
RootHandler(r, store, ids) ==
  Sent(store, ids, 200, [text |-> "Products API - Use /api/products endpoints"])

\* the category filter of GET /api/products; the callback compares
\* p.category.toLowerCase() with req.query.category.toLowerCase(), left first
CategoryFilter(result, category) ==
  IF result # <<>> /\ result[1].category.t = "string" /\ category.t # "string"
    THEN [thrown |-> TypeError("req.query.category.toLowerCase is not a function"),
          result |-> <<>>]
  ELSE IF \E i \in DOMAIN result : result[i].category.t # "string"
    THEN [thrown |-> TypeError("p.category.toLowerCase is not a function"),
          result |-> <<>>]
  ELSE LET Keep(p) == ToLowerCase(p.category.s) = ToLowerCase(category.s)
       IN [thrown |-> NoError, result |-> Filter(result, Keep)]

\* the name search of GET /api/products; searchTerm is computed before the
\* filter runs
SearchFilter(result, search) ==
  IF search.t # "string"
    THEN [thrown |-> TypeError("req.query.search.toLowerCase is not a function"),
          result |-> <<>>]
  ELSE IF \E i \in DOMAIN result : result[i].name.t # "string"
    THEN [thrown |-> TypeError("p.name.toLowerCase is not a function"),
          result |-> <<>>]
  ELSE LET searchTerm == ToLowerCase(search.s)
           Keep(p)    == Includes(ToLowerCase(p.name.s), searchTerm)
       IN [thrown |-> NoError, result |-> Filter(result, Keep)]

\* the slice and the response body of GET /api/products
Page(result, page, limit) ==
  [total |-> Whole(Len(result)), page |-> page, limit |-> limit,
   data |-> Slice(result, Times(Minus(page, Whole(1)), limit), Times(page, limit))]

\* the pagination of GET /api/products and its response
Paginate(result, query) ==
  Page(result, Or(parseInt(query.page), Whole(1)), Or(parseInt(query.limit), Whole(10)))

\* the name search applied to what the category filter left
ThenSearch(byCategory, query) ==
  IF byCategory.thrown # NoError THEN byCategory
  ELSE IF Truthy(query.search) THEN SearchFilter(byCategory.result, query.search)
  ELSE byCategory

\* the two filters of GET /api/products, category first
FilterProducts(store, query) ==
  ThenSearch(IF Truthy(query.category)
               THEN CategoryFilter(store, query.category)
               ELSE [thrown |-> NoError, result |-> store],
             query)

\* the response of GET /api/products, or the filters' error
ListResult(filtered, r, store, ids) ==
  IF filtered.thrown # NoError THEN Thrown(store, ids, filtered.thrown)
  ELSE Sent(store, ids, 200, Paginate(filtered.result, r.query))

\* GET /api/products
ListHandler(r, store, ids) ==
  ListResult(FilterProducts(store, r.query), r, store, ids)

\* GET /api/products/:id
GetHandler(r, store, ids) ==
  LET HasId(p) == p.id = r.path[3]
      i        == FindIndex(store, HasId)
  IN IF i = 0 THEN Thrown(store, ids, NotFoundError("Product not found"))
     ELSE Sent(store, ids, 200, store[i])

\* POST /api/products
CreateHandler(r, store, ids) ==
  LET newProduct == [id          |-> uuidv4(ids + 1),
                     name        |-> r.body.name,
                     description |-> r.body.description,
                     price       |-> parseFloat(r.body.price),
                     category    |-> r.body.category,
                     inStock     |-> r.body.inStock]
  IN Sent(Append(store, newProduct), ids + 1, 201, newProduct)

\* PUT /api/products/:id
UpdateHandler(r, store, ids) ==
  LET HasId(p)     == p.id = r.path[3]
      productIndex == FindIndex(store, HasId)
      updated      == [store[productIndex] EXCEPT
                         !.name        = r.body.name,
                         !.description = r.body.description,
                         !.price       = parseFloat(r.body.price),
                         !.category    = r.body.category,
                         !.inStock     = r.body.inStock]
  IN IF productIndex = 0 THEN Thrown(store, ids, NotFoundError("Product not found"))
     ELSE Sent([store EXCEPT ![productIndex] = updated], ids, 200, updated)

\* DELETE /api/products/:id with the filter's test inverted
DeleteHandlerInverted(r, store, ids) ==
  LET HasId(p)     == p.id = r.path[3]
      productIndex == FindIndex(store, HasId)
  IN IF productIndex = 0 THEN Thrown(store, ids, NotFoundError("Product not found"))
     ELSE Sent(Filter(store, HasId), ids, 204, [empty |-> TRUE])

\* DELETE /api/products/:id
DeleteHandler(r, store, ids) ==
  LET HasId(p)     == p.id = r.path[3]
      Other(p)     == p.id # r.path[3]
      productIndex == FindIndex(store, HasId)
  IN IF productIndex = 0 THEN Thrown(store, ids, NotFoundError("Product not found"))
     ELSE Sent(Filter(store, Other), ids, 204, [empty |-> TRUE])

RECURSIVE SumPrices(_)
\* products.reduce((sum, p) => sum + p.price, 0)
SumPrices(store) ==
  IF store = <<>> THEN Num(0)
  ELSE LET rest == SumPrices(SubSeq(store, 1, Len(store) - 1))
           last == store[Len(store)].price
       IN IF rest = NaN \/ last = NaN THEN NaN ELSE Num(rest.n + last.n)

RECURSIVE CountCategories(_)
\* products.forEach(p => { ... stats.categories[p.category]++ }); a property
\* key is the string of the category
CountCategories(store) ==
  IF store = <<>> THEN EmptyObject
  ELSE LET rest == CountCategories(SubSeq(store, 1, Len(store) - 1))
           key  == ToStr(store[Len(store)].category)
       IN Assign(rest, key, (IF key \in DOMAIN rest THEN rest[key] ELSE 0) + 1)

\* GET /api/products/stats (the quotient is kept to two decimals)
StatsHandler(r, store, ids) ==
  LET InStock(p)    == Truthy(p.inStock)
      OutOfStock(p) == ~Truthy(p.inStock)
      sum           == SumPrices(store)
      quotient      == IF sum = NaN \/ Len(store) = 0 THEN NaN
                       ELSE Num(sum.n \div Len(store))
  IN Sent(store, ids, 200,
          [totalProducts |-> Len(store),
           categories    |-> CountCategories(store),
           inStock       |-> Len(Filter(store, InStock)),
           outOfStock    |-> Len(Filter(store, OutOfStock)),
           averagePrice  |-> Or(quotient, Num(0))])

(* ------------------------------ routing -------------------------------- *)

\* The routes in the order server.js registers them; a pattern segment that
\* starts with ":" is a parameter.  Express gives a request to the first
\* route whose method and pattern match it.
Routes ==
  << [method |-> "GET",    pattern |-> <<>>,
      auth |-> FALSE, validate |-> FALSE, handler |-> "root"],
     [method |-> "GET",    pattern |-> <<SegApi, SegProducts>>,
      auth |-> FALSE, validate |-> FALSE, handler |-> "list"],
     [method |-> "GET",    pattern |-> <<SegApi, SegProducts, <<":", "i", "d">> >>,
      auth |-> FALSE, validate |-> FALSE, handler |-> "get"],
     [method |-> "POST",   pattern |-> <<SegApi, SegProducts>>,
      auth |-> TRUE,  validate |-> TRUE,  handler |-> "create"],
     [method |-> "PUT",    pattern |-> <<SegApi, SegProducts, <<":", "i", "d">> >>,
      auth |-> TRUE,  validate |-> TRUE,  handler |-> "update"],
     [method |-> "DELETE", pattern |-> <<SegApi, SegProducts, <<":", "i", "d">> >>,
      auth |-> TRUE,  validate |-> FALSE, handler |-> "delete"],
     [method |-> "GET",    pattern |-> <<SegApi, SegProducts, SegStats>>,
      auth |-> FALSE, validate |-> FALSE, handler |-> "stats"] >>

Matches(route, r) ==
  /\ route.method = r.method
  /\ Len(route.pattern) = Len(r.path)
  /\ \A i \in DOMAIN r.path :
       route.pattern[i][1] = ":" \/ route.pattern[i] = r.path[i]

\* the index of the route that serves r, 0 when none does
Dispatch(r) ==
  IF \E k \in DOMAIN Routes : Matches(Routes[k], r)
    THEN CHOOSE k \in DOMAIN Routes :
           Matches(Routes[k], r) /\ \A j \in 1..(k - 1) : ~Matches(Routes[j], r)
    ELSE 0

HandlerOf(name, r, store, ids) ==
  CASE name = "root"   -> RootHandler(r, store, ids)
    [] name = "list"   -> ListHandler(r, store, ids)
    [] name = "get"    -> GetHandler(r, store, ids)
    [] name = "create" -> CreateHandler(r, store, ids)
    [] name = "update" -> UpdateHandler(r, store, ids)
    [] name = "delete" -> DeleteHandler(r, store, ids)
    [] name = "stats"  -> StatsHandler(r, store, ids)

\* asyncHandler: a rejection of the handler's promise goes to next(err), that
\* is to the global error handler
asyncHandler(h) ==
  IF h.thrown # NoError
    THEN [h EXCEPT !.sent = h.sent \o <<ErrorHandler(h.thrown)>>]
    ELSE h

\* what the route's handler leaves, with the stages that ran
Handled(route, h, before) ==
  [products |-> h.products, ids |-> h.ids, thrown |-> h.thrown, sent |-> h.sent,
   stages |-> before \o <<route.handler>>
                \o (IF h.thrown # NoError THEN <<"errorHandler">> ELSE <<>>)]

\* a middleware replied instead of calling next()
Replied(m, store, ids, before) ==
  [products |-> store, ids |-> ids, thrown |-> NoError,
   sent |-> <<[status |-> m.status, body |-> m.body]>>, stages |-> before]

\* the route's middleware in order, then its handler
Chain(route, r, store, ids, a, v) ==
  IF ~a.next
    THEN Replied(a, store, ids, <<"logger", "apiKeyMiddleware">>)
  ELSE IF ~v.next
    THEN Replied(v, store, ids,
                 <<"logger">> \o (IF route.auth THEN <<"apiKeyMiddleware">> ELSE <<>>)
                   \o <<"validateProduct">>)
  ELSE Handled(route, asyncHandler(HandlerOf(route.handler, r, store, ids)),
               <<"logger">> \o (IF route.auth THEN <<"apiKeyMiddleware">> ELSE <<>>)
                 \o (IF route.validate THEN <<"validateProduct">> ELSE <<>>))

\* One request through logger, the route's middleware and its handler.
Pipeline(route, r, store, ids) ==
  Chain(route, r, store, ids,
        IF route.auth THEN apiKeyMiddleware(r) ELSE CallNext,
        IF route.validate THEN validateProduct(r) ELSE CallNext)

(* ------------------------------ requests ------------------------------- *)

Request(method, path, apiKey, query, body) ==
  [method |-> method, path |-> path, apiKey |-> apiKey, query |-> query, body |-> body]

Query(category, search, page, limit) ==
  [category |-> category, search |-> search, page |-> page, limit |-> limit]

Body(name, description, price, category, inStock) ==
  [name |-> name, description |-> description, price |-> price,
   category |-> category, inStock |-> inStock]

NoQuery == Query(Undefined, Undefined, Undefined, Undefined)

NoBody == Body(Undefined, Undefined, Undefined, Undefined, Undefined)

NoRequest == Request("NONE", <<>>, Undefined, NoQuery, NoBody)

ValidBody ==
  Body(Str(<<"P", "e", "n">>), Str(<<"B", "l", "u", "e">>), Whole(10),
       Str(<<"T", "o", "y", "s">>), Bool(FALSE))

\* The payloads of the model: the valid one, and payloads that differ from it
\* in the JSON type or value of some members.
Bodies ==
  { ValidBody,
    NoBody,
    [ValidBody EXCEPT !.name = Undefined],
    [ValidBody EXCEPT !.name = Whole(123), !.category = Whole(7),
                      !.price = Str(<<"1", "2", ".", "5">>)],
    [ValidBody EXCEPT !.description = Str(<<>>)],
    [ValidBody EXCEPT !.price = Undefined],
    [ValidBody EXCEPT !.price = Whole(0)],
    [ValidBody EXCEPT !.price = Whole(-5)],
    [ValidBody EXCEPT !.price = Str(<<"a", "b", "c">>)],
    [ValidBody EXCEPT !.price = Str(<<"0", "x", "1", "0">>)],
    [ValidBody EXCEPT !.price = Bool(TRUE)],
    [ValidBody EXCEPT !.inStock = Str(<<"t", "r", "u", "e">>)],
    [ValidBody EXCEPT !.name = Undefined, !.price = Whole(-5), !.inStock = Whole(1)] }

WrongApiKey == Str(<<"w", "r", "o", "n", "g">>)

\* x-api-key: absent, empty, wrong, right
ApiKeys == {Undefined, Str(<<>>), WrongApiKey, Str(SecretApiKey)}

\* key and payload of a mutating request: every payload with the right key,
\* the valid payload with every other key, an empty payload with a wrong key
Credentials ==
  {c \in ApiKeys \X Bodies :
     \/ c[1] = Str(SecretApiKey)
     \/ c[2] = ValidBody
     \/ (c[1] = WrongApiKey /\ c[2] = NoBody)}

\* the identifiers requests name: a seed record's, and the one the first
\* create is given (no record has it before that create, or after its delete)
Targets == {uuidv4(1), uuidv4(3)}

Filters ==
  { <<Undefined, Undefined>>,
    <<Str(<<"e", "l", "e", "c", "t", "r", "o", "n", "i", "c", "s">>), Undefined>>,
    <<Undefined, Str(<<"L", "A", "P">>)>>,
    <<Str(<<"t", "o", "y", "s">>), Str(<<"e">>)>>,
    <<Arr(<<Str(<<"a">>), Str(<<"b">>)>>), Undefined>>,
    <<Undefined, Arr(<<Str(<<"a">>), Str(<<"b">>)>>)>> }

Pages ==
  { <<Undefined, Undefined>>,
    <<Str(<<"2">>), Str(<<"1">>)>>,
    <<Str(<<"-", "1">>), Str(<<"1">>)>>,
    <<Str(<<"1">>), Str(<<"-", "1">>)>>,
    <<Str(<<"0">>), Str(<<"0">>)>>,
    <<Str(<<"3">>), Str(<<"2">>)>>,
    <<Str(<<"a", "b", "c">>), Str(<<"2", "x">>)>> }

Queries ==
  {Query(f[1], f[2], Undefined, Undefined) : f \in Filters}
    \cup {Query(Undefined, Undefined, p[1], p[2]) : p \in Pages}
    \cup {Query(Str(<<"E", "l", "e", "c", "t", "r", "o", "n", "i", "c", "s">>),
                Undefined, Str(<<"2">>), Str(<<"1">>))}

Requests ==
  {Request("GET", <<>>, Undefined, NoQuery, NoBody)}
    \cup {Request("GET", <<SegApi, SegProducts>>, Undefined, q, NoBody) : q \in Queries}
    \cup {Request("GET", <<SegApi, SegProducts, seg>>, Undefined, NoQuery, NoBody) :
            seg \in Targets \cup {SegStats}}
    \cup {Request("POST", <<SegApi, SegProducts>>, c[1], NoQuery, c[2]) : c \in Credentials}
    \cup {Request("PUT", <<SegApi, SegProducts, seg>>, c[1], NoQuery, c[2]) :
            seg \in Targets, c \in Credentials}
    \cup {Request("DELETE", <<SegApi, SegProducts, seg>>, k, NoQuery, NoBody) :
            seg \in Targets, k \in ApiKeys}

\* the requests of the model that route k serves
Served(k) == {r \in Requests : Dispatch(r) = k}

RootRequests == Served(1)

ListRequests == Served(2)

GetRequests == Served(3)

PostRequests == Served(4)

PutRequests == Served(5)

DeleteRequests == Served(6)

(* ------------------------------ behaviour ------------------------------ *)

Init ==
  /\ products = SeedProducts
  /\ generated = Len(SeedProducts)
  /\ deleted = {}
  /\ req = NoRequest
  /\ stages = <<>>
  /\ err = NoError
  /\ out = <<>>

\* The outcome o of request r becomes the state.  deleted records, for the
\* properties, the identifiers whose DELETE was answered 204.
Apply(r, o) ==
  /\ o.ids <= MaxIds
  /\ products' = o.products
  /\ generated' = o.ids
  /\ deleted' = IF r.method = "DELETE" /\ o.sent # <<>> /\ o.sent[1].status = 204
                  THEN deleted \cup {r.path[3]}
                  ELSE deleted
  /\ req' = r
  /\ stages' = o.stages
  /\ err' = o.thrown
  /\ out' = o.sent

\* The server handles request r with route k.
Serve(k, r) == \E o \in {Pipeline(Routes[k], r, products, generated)} : Apply(r, o)

\* GET /
GetRoot ==
  \E r \in RootRequests :
    /\ Dispatch(r) = 1
    /\ Serve(1, r)

\* GET /api/products
GetProducts ==
  \E r \in ListRequests :
    /\ Dispatch(r) = 2
    /\ Serve(2, r)

\* GET /api/products/:id, which also takes GET /api/products/stats
GetProduct ==
  \E r \in GetRequests :
    /\ Dispatch(r) = 3
    /\ Serve(3, r)

\* POST /api/products
PostProduct ==
  \E r \in PostRequests :
    /\ Dispatch(r) = 4
    /\ Serve(4, r)

\* PUT /api/products/:id
PutProduct ==
  \E r \in PutRequests :
    /\ Dispatch(r) = 5
    /\ Serve(5, r)

\* DELETE /api/products/:id
DeleteProduct ==
  \E r \in DeleteRequests :
    /\ Dispatch(r) = 6
    /\ Serve(6, r)

Next ==
  \/ GetRoot
  \/ GetProducts
  \/ GetProduct
  \/ PostProduct
  \/ PutProduct
  \/ DeleteProduct

Spec == Init /\ [][Next]_vars

(* ----------------------------- properties ------------------------------ *)

ProductsPath == <<SegApi, SegProducts>>

ProductPath(id) == <<SegApi, SegProducts, id>>

Authorized(r) == r.apiKey = Str(SecretApiKey)

Answered(status) == Len(out) = 1 /\ out[1].status = status

AnsweredNext(status) == Len(out') = 1 /\ out'[1].status = status

Ran(stage) == \E i \in DOMAIN stages : stages[i] = stage

HandlerStages == {Routes[k].handler : k \in DOMAIN Routes}

\* C1: a POST, PUT or DELETE whose x-api-key is missing or is not the secret
\* is answered 401 once; only logger and the auth gate have run (no
\* validation, no handler) and the store is what it was before the request.
C1_UnauthorizedIsRejected ==
  [][ (req'.method \in {"POST", "PUT", "DELETE"} /\ ~Authorized(req'))
        => /\ AnsweredNext(401)
           /\ stages' = <<"logger", "apiKeyMiddleware">>
           /\ products' = products
           /\ generated' = generated ]_vars

\* a PUT with a wrong key, an invalid payload and an absent id was answered 401
C1_Witness ==
  /\ req.method = "PUT"
  /\ req.apiKey.t = "string" /\ ~Authorized(req)
  /\ DOMAIN ValidationErrors(req.body) # {}
  /\ req.path[3] \notin Ids(products)
  /\ Answered(401)

\* the fields of a payload that break their rule, as the rules are worded
MissingOrEmpty(v) == v = Undefined \/ v = Str(<<>>)

IsNumeric(v) == v.t = "number" \/ (v.t = "string" /\ StringToNumber(v.s) # NaN)

ViolatingFields(body) ==
  {f \in {"name", "description", "category"} : MissingOrEmpty(body[f])}
    \cup (IF body.price = Undefined \/ ~IsNumeric(body.price)
               \/ LessOrEqualZero(body.price)
            THEN {"price"} ELSE {})
    \cup (IF body.inStock.t # "boolean" THEN {"inStock"} ELSE {})

\* C2: an authenticated POST or PUT is answered 400 exactly when some field
\* breaks its rule; the keys of the error mapping are then exactly the
\* violating fields, no handler runs and the store is unchanged.
C2_RejectedIffViolation ==
  [][ (req'.method \in {"POST", "PUT"} /\ Authorized(req'))
        => /\ Len(out') = 1
           /\ (out'[1].status = 400) <=> (ViolatingFields(req'.body) # {})
           /\ (out'[1].status = 400)
                => /\ DOMAIN out'[1].body.errors = ViolatingFields(req'.body)
                   /\ \A i \in DOMAIN stages' : stages'[i] \notin HandlerStages
                   /\ products' = products ]_vars

\* C3: GET /api/products/stats is served by the stats handler: 200 with the
\* stats record of the current store.
C3_StatsIsServed ==
  (req.method = "GET" /\ req.path = ProductPath(SegStats))
    => /\ Answered(200)
       /\ Ran("stats")
       /\ out[1].body = StatsHandler(req, products, generated).sent[1].body
       /\ out[1].body.totalProducts = Len(products)

\* C4: GET /api/products is always answered 200 with {total, page, limit, data}.
C4_ListNeverFails ==
  (req.method = "GET" /\ req.path = ProductsPath)
    => /\ Answered(200)
       /\ DOMAIN out[1].body = {"total", "page", "limit", "data"}

\* C5: an id whose DELETE was answered 204 is not in the store, then or ever
\* after (so no create hands it out again); a later GET of it and a later
\* authenticated DELETE of it are answered 404.
C5_DeletedStaysGone ==
  [][ /\ \A id \in deleted' : id \notin Ids(products')
      /\ \A id \in deleted :
           /\ (req'.method = "GET" /\ req'.path = ProductPath(id)) => AnsweredNext(404)
           /\ (req'.method = "DELETE" /\ req'.path = ProductPath(id) /\ Authorized(req'))
                => AnsweredNext(404) ]_vars

\* after a delete and a later create, a second DELETE of the deleted id was
\* answered 404
C5_Witness ==
  /\ req.method = "DELETE" /\ Authorized(req)
  /\ req.path[3] \in deleted
  /\ generated > Len(SeedProducts)
  /\ Answered(404)

\* the record a valid PUT leaves: the old id, the payload's five fields (the
\* price as the number the payload's price denotes)
Replaced(p, body) ==
  [id          |-> p.id,
   name        |-> body.name,
   description |-> body.description,
   price       |-> ToNumber(body.price),
   category    |-> body.category,
   inStock     |-> body.inStock]

\* C6: an authenticated PUT that passes validation, on an existing id,
\* overwrites the five fields of that record with the payload values and
\* changes nothing else (id, position, number and order of records, the
\* other records); on an absent id it is answered 404, store unchanged.
C6_ReplaceOverwritesInPlace ==
  [][ (req'.method = "PUT" /\ Authorized(req')
         /\ DOMAIN ValidationErrors(req'.body) = {})
        => IF req'.path[3] \in Ids(products)
             THEN /\ AnsweredNext(200)
                  /\ Len(products') = Len(products)
                  /\ \A i \in DOMAIN products :
                       products'[i] = IF products[i].id = req'.path[3]
                                        THEN Replaced(products[i], req'.body)
                                        ELSE products[i]
             ELSE /\ AnsweredNext(404)
                  /\ products' = products ]_vars

\* a query value that spells an integer
IsIntegerText(v) ==
  /\ v.t = "string"
  /\ Unsigned(v.s) # <<>>
  /\ DigitRun(Unsigned(v.s), DecDigits) = Len(Unsigned(v.s))

\* the elements of s whose 0-based index i has lo <= i < hi, in order
Window(s, lo, hi) == SubSeq(s, Max(lo, 0) + 1, Min(hi, Len(s)))

\* C7: for integer page and limit (zero and negative included) the answer of
\* GET /api/products has total = the length of the filtered sequence and
\* data = its elements with (page-1)*limit <= index < page*limit, for the
\* page and limit the answer echoes; an empty window gives empty data.
C7_PageIsTheWindow ==
  (req.method = "GET" /\ req.path = ProductsPath /\ Answered(200)
     /\ IsIntegerText(req.query.page) /\ IsIntegerText(req.query.limit))
    => LET body     == out[1].body
           filtered == FilterProducts(products, req.query).result
           page     == ToInteger(body.page)
           limit    == ToInteger(body.limit)
       IN /\ body.total = Whole(Len(filtered))
          /\ body.data = Window(filtered, (page - 1) * limit, page * limit)

\* C8: every product in the store has a numeric price greater than 0.
C8_StoredPriceIsPositive ==
  \A i \in DOMAIN products :
    products[i].price.t = "number" /\ products[i].price.n > 0

\* C9: a payload whose price is a number that is not positive (0, -5) is
\* answered 400 with the 'must be a positive number' message for price; the
\* 'is required' message is given only when price is absent.
C9_NonPositivePriceMessage ==
  (req.method \in {"POST", "PUT"} /\ Authorized(req))
    => /\ (req.body.price.t = "number" /\ req.body.price.n <= 0)
            => /\ Answered(400)
               /\ "price" \in DOMAIN out[1].body.errors
               /\ out[1].body.errors["price"] = "Price must be a positive number"
       /\ (Answered(400) /\ "price" \in DOMAIN out[1].body.errors
             /\ out[1].body.errors["price"] = "Price is required")
            => req.body.price = Undefined

\* C10: a failure raised in a route handler is answered exactly once, by the
\* error handler: 404 for NotFoundError, and for a failure of no recognized
\* kind 500 with the fixed generic message.
C10_FailureIsTranslated ==
  (err # NoError)
    => /\ Len(out) = 1
       /\ stages[Len(stages)] = "errorHandler"
       /\ (err.name = "NotFoundError") => out[1].status = 404
       /\ (err.name \notin {"NotFoundError", "ValidationError"})
            => /\ out[1].status = 500
               /\ out[1].body.message = "Internal Server Error"

====
